---- MODULE Spec2Model ----
(***************************************************************************)
(* Model of src/test-rust-example.rs: the User entity, the                 *)
(* InMemoryUserRepository (users: HashMap<u64, User>, next_id: u64) with   *)
(* its operations new, initialize, create_user, find_user and list_users,  *)
(* and the callers that use one repository concurrently through &self.     *)
(***************************************************************************)
EXTENDS Integers, Sequences, FiniteSets, TLC

\* ---------------------------------------------------------------- bounds
NumCallers == 2      \* concurrent callers (request handlers, tests)
MaxOps == 2          \* repository calls issued by the callers in one run
MaxId == 2           \* ids a caller may pass to find_user: 1..MaxId
MaxTime == 2         \* values chrono::Utc::now() may return: 1..MaxTime
MaxRequests == 3     \* HTTP requests the handlers take in one run

Callers == 1..NumCallers
Main == 0            \* the caller of initialize (main, before the server runs)
Ids == 1..MaxId
Times == 1..MaxTime

\* CreateUserRequest values: the fixture of initialize and the one of the tests
Requests ==
    { [name |-> "John Doe", email |-> "john@example.com"],
      [name |-> "Test User", email |-> "test@example.com"] }

NoRequest == [name |-> "", email |-> ""]
NoUser == [id |-> 0, name |-> "", email |-> "", created_at |-> 0]

VARIABLES
    users,        \* InMemoryUserRepository.users : id -> User
    next_id,      \* InMemoryUserRepository.next_id
    phase,        \* main's position: "new", "initialized", "serving"
    pc,           \* position of each caller inside its current call
    request,      \* create_user's argument, per caller
    user,         \* create_user's local `user`, per caller
    id,           \* find_user's argument, per caller
    history       \* invocation and return events of all calls, in order

vars == <<users, next_id, phase,
          pc, request, user, id, history>>

\* ---------------------------------------------------------- result values
Some(v) == <<v>>
None == <<>>
Ok(v) == [ok |-> TRUE, val |-> v]
Err(e) == [ok |-> FALSE, val |-> e]

\* ------------------------------------------------------------- operators
\* User { id: self.next_id, name: request.name, email: request.email,
\*        created_at: chrono::Utc::now() }
BuildUserSwapped(k, req, t) ==
    [id |-> k, name |-> req.email, email |-> req.name, created_at |-> t]

BuildUser(k, req, t) ==
    [id |-> k, name |-> req.name, email |-> req.email, created_at |-> t]

find_user_missing_is_err(us, k) ==
    IF k \in DOMAIN us THEN Ok(Some(us[k])) ELSE Err("not found")

\* Ok(self.users.get(&id).cloned())
find_user(us, k) ==
    Ok(IF k \in DOMAIN us THEN Some(us[k]) ELSE None)

MaxKey(S) == CHOOSE k \in S : \A j \in S : k >= j

\* self.users.values().cloned(): every value once, in the map's iteration
\* order, which is unspecified but the same whenever the map is the same
RECURSIVE values(_)
values(us) ==
    IF DOMAIN us = {} THEN <<>>
    ELSE LET k == CHOOSE j \in DOMAIN us : TRUE
             rest == [j \in DOMAIN us \ {k} |-> us[j]]
         IN  <<us[k]>> \o values(rest)

\* Ok(self.users.values().cloned().collect())
list_users(us) == Ok(values(us))

\* ------------------------------------------------------------ the history
InvEvent(c, op, a) == [kind |-> "inv", caller |-> c, op |-> op, arg |-> a]
RetEvent(c, op, a, v, i) ==
    [kind |-> "ret", caller |-> c, op |-> op, arg |-> a, val |-> v, inv |-> i]

Invs == {i \in DOMAIN history : history[i].kind = "inv"}
Rets(op) == {i \in DOMAIN history :
                history[i].kind = "ret" /\ history[i].op = op}
LastInv(c) ==
    MaxKey({i \in Invs : history[i].caller = c})

\* ------------------------------------------------------------------ Init
\* InMemoryUserRepository::new()
InitSeeded ==
    /\ users = (1 :> BuildUser(1, [name |-> "John Doe",
                                   email |-> "john@example.com"], 1))
    /\ next_id = 1
    /\ phase = "new"
    /\ pc = [c \in Callers |-> "idle"]
    /\ request = [c \in Callers |-> NoRequest]
    /\ user = [c \in Callers |-> NoUser]
    /\ id = [c \in Callers |-> 0]
    /\ history = <<>>

Init ==
    /\ users = <<>>
    /\ next_id = 1
    /\ phase = "new"
    /\ pc = [c \in Callers |-> "idle"]
    /\ request = [c \in Callers |-> NoRequest]
    /\ user = [c \in Callers |-> NoUser]
    /\ id = [c \in Callers |-> 0]
    /\ history = <<>>

\* --------------------------------------------------------------- actions
\* initialize(&mut self): one create_user call with the fixture request,
\* whose result is dropped.  &mut self excludes every other borrow.
Fixture == [name |-> "John Doe", email |-> "john@example.com"]

InitializeDirectInsert ==
    /\ phase = "new" /\ history = <<>>
    /\ \E t \in Times :
          users' = (next_id :> BuildUser(next_id, Fixture, t)) @@ users
    /\ phase' = "initialized"
    /\ UNCHANGED <<next_id, pc, request, user, id, history>>

InitializeWrongKey ==
    /\ phase = "new" /\ history = <<>>
    /\ \E t \in Times :
          /\ history' =
               << InvEvent(Main, "create", Fixture),
                  RetEvent(Main, "create", Fixture,
                           Ok(BuildUser(next_id, Fixture, t)), 1) >>
          /\ users' = ((next_id + 1) :> BuildUser(next_id, Fixture, t)) @@ users
    /\ phase' = "initialized"
    /\ UNCHANGED <<next_id, pc, request, user, id>>

Initialize ==
    /\ phase = "new" /\ history = <<>>
    /\ \E t \in Times :
          history' =
             << InvEvent(Main, "create", Fixture),
                RetEvent(Main, "create", Fixture,
                         Ok(BuildUser(next_id, Fixture, t)), 1) >>
    /\ phase' = "initialized"
    /\ UNCHANGED <<users, next_id, pc, request, user, id>>

\* AppState { user_repo: Arc::new(user_repo) } and HttpServer::new(..).run():
\* the initialized repository is moved into the shared handle and the
\* request handlers start to use it.
Share ==
    /\ phase = "initialized"
    /\ phase' = "serving"
    /\ UNCHANGED <<users, next_id, pc, request, user, id, history>>

\* Callers exist on a repository fresh from new() (the tests) and on the
\* shared one (the handlers); main calls nothing between initialize and Arc.
CanCall(c) ==
    /\ pc[c] = "idle"
    /\ phase \in {"new", "serving"}
    /\ Cardinality({i \in Invs : history[i].caller \in Callers}) < MaxOps

\* A caller invokes create_user(request).
CallCreate(c) ==
    /\ CanCall(c)
    /\ \E req \in Requests :
          /\ request' = [request EXCEPT ![c] = req]
          /\ history' = Append(history, InvEvent(c, "create", req))
    /\ pc' = [pc EXCEPT ![c] = "create_begin"]
    /\ UNCHANGED <<users, next_id, phase, user, id>>

\* let user = User { id: self.next_id, ..., created_at: Utc::now() };
CreateBuildPlaceholder(c) ==
    /\ pc[c] = "create_begin"
    /\ \E t \in Times :
          user' = [user EXCEPT ![c] = BuildUser(next_id, request[c], t)]
    /\ users' = (next_id :> [NoUser EXCEPT !.id = next_id]) @@ users
    /\ pc' = [pc EXCEPT ![c] = "create_built"]
    /\ UNCHANGED <<next_id, phase,
                   request, id, history>>

CreateBuild(c) ==
    /\ pc[c] = "create_begin"
    /\ \E t \in Times :
          user' = [user EXCEPT ![c] = BuildUser(next_id, request[c], t)]
    /\ pc' = [pc EXCEPT ![c] = "create_built"]
    /\ UNCHANGED <<users, next_id, phase,
                   request, id, history>>

\* (the insert and the increment are commented out)  Ok(user)
CreateReturnPush(c) ==
    /\ pc[c] = "create_built"
    /\ users' = ((Cardinality(DOMAIN users) + 1) :> user[c]) @@ users
    /\ history' = Append(history,
          RetEvent(c, "create", request[c], Ok(user[c]), LastInv(c)))
    /\ pc' = [pc EXCEPT ![c] = "idle"]
    /\ request' = [request EXCEPT ![c] = NoRequest]
    /\ user' = [user EXCEPT ![c] = NoUser]
    /\ UNCHANGED <<next_id, phase, id>>

CreateReturnInsertOnly(c) ==
    /\ pc[c] = "create_built"
    /\ users' = (user[c].id :> user[c]) @@ users
    /\ history' = Append(history,
          RetEvent(c, "create", request[c], Ok(user[c]), LastInv(c)))
    /\ pc' = [pc EXCEPT ![c] = "idle"]
    /\ request' = [request EXCEPT ![c] = NoRequest]
    /\ user' = [user EXCEPT ![c] = NoUser]
    /\ UNCHANGED <<next_id, phase, id>>

CreateReturn(c) ==
    /\ pc[c] = "create_built"
    /\ history' = Append(history,
          RetEvent(c, "create", request[c], Ok(user[c]), LastInv(c)))
    /\ pc' = [pc EXCEPT ![c] = "idle"]
    /\ request' = [request EXCEPT ![c] = NoRequest]
    /\ user' = [user EXCEPT ![c] = NoUser]
    /\ UNCHANGED <<users, next_id, phase, id>>

\* A caller invokes find_user(id).
CallFind(c) ==
    /\ CanCall(c)
    /\ \E k \in Ids :
          /\ id' = [id EXCEPT ![c] = k]
          /\ history' = Append(history, InvEvent(c, "find", k))
    /\ pc' = [pc EXCEPT ![c] = "find_begin"]
    /\ UNCHANGED <<users, next_id, phase,
                   request, user>>

\* Ok(self.users.get(&id).cloned())
FindReturnOrInsert(c) ==
    /\ pc[c] = "find_begin"
    /\ history' = Append(history,
          RetEvent(c, "find", id[c], find_user(users, id[c]), LastInv(c)))
    /\ users' = IF id[c] \in DOMAIN users THEN users
                ELSE (id[c] :> [NoUser EXCEPT !.id = id[c]]) @@ users
    /\ pc' = [pc EXCEPT ![c] = "idle"]
    /\ id' = [id EXCEPT ![c] = 0]
    /\ UNCHANGED <<next_id, phase, request, user>>

FindReturn(c) ==
    /\ pc[c] = "find_begin"
    /\ history' = Append(history,
          RetEvent(c, "find", id[c], find_user(users, id[c]), LastInv(c)))
    /\ pc' = [pc EXCEPT ![c] = "idle"]
    /\ id' = [id EXCEPT ![c] = 0]
    /\ UNCHANGED <<users, next_id, phase,
                   request, user>>

\* A caller invokes list_users().
CallList(c) ==
    /\ CanCall(c)
    /\ history' = Append(history, InvEvent(c, "list", 0))
    /\ pc' = [pc EXCEPT ![c] = "list_begin"]
    /\ UNCHANGED <<users, next_id, phase,
                   request, user, id>>

\* Ok(self.users.values().cloned().collect())
ListReturnBehindLeakedLock(c) ==
    /\ \A i \in DOMAIN history :
          ~(history[i].kind = "ret" /\ history[i].op = "create")
    /\ pc[c] = "list_begin"
    /\ history' = Append(history,
          RetEvent(c, "list", 0, list_users(users), LastInv(c)))
    /\ pc' = [pc EXCEPT ![c] = "idle"]
    /\ UNCHANGED <<users, next_id, phase,
                   request, user, id>>

ListReturn(c) ==
    /\ pc[c] = "list_begin"
    /\ history' = Append(history,
          RetEvent(c, "list", 0, list_users(users), LastInv(c)))
    /\ pc' = [pc EXCEPT ![c] = "idle"]
    /\ UNCHANGED <<users, next_id, phase,
                   request, user, id>>

Next ==
    \/ Initialize
    \/ Share
    \/ \E c \in Callers : CallCreate(c)
    \/ \E c \in Callers : CreateBuild(c)
    \/ \E c \in Callers : CreateReturn(c)
    \/ \E c \in Callers : CallFind(c)
    \/ \E c \in Callers : FindReturn(c)
    \/ \E c \in Callers : CallList(c)
    \/ \E c \in Callers : ListReturn(c)

Spec == Init /\ [][Next]_vars

\* Fair scheduling: the runtime keeps polling every call that has been
\* invoked, so a step of a call that stays possible is eventually taken.
\* Whether a call makes progress does not depend on what the clock reads,
\* so here every timestamp is the first one.
FirstTime ==
    /\ \A c \in Callers : user[c].created_at <= 1
    /\ \A i \in DOMAIN history :
          (history[i].kind = "ret" /\ history[i].op = "create")
              => history[i].val.val.created_at = 1

FairNext ==
    \/ (Initialize /\ FirstTime')
    \/ Share
    \/ \E c \in Callers : CallCreate(c)
    \/ \E c \in Callers : (CreateBuild(c) /\ FirstTime')
    \/ \E c \in Callers : CreateReturn(c)
    \/ \E c \in Callers : CallFind(c)
    \/ \E c \in Callers : FindReturn(c)
    \/ \E c \in Callers : CallList(c)
    \/ \E c \in Callers : ListReturn(c)

FairSpec ==
    /\ Init /\ [][FairNext]_vars
    /\ \A c \in Callers :
          /\ WF_vars(CreateBuild(c) /\ FirstTime')
          /\ WF_vars(CreateReturn(c))
          /\ WF_vars(FindReturn(c))
          /\ WF_vars(ListReturn(c))

\* -------------------------------------------------------------- handlers
\* The handlers reach the repository through AppState.user_repo, a
\* dyn UserRepository: what a call returns is whatever the backend behind
\* the trait object returns, any value of the method's result type.
BackendUsers(k) == {BuildUser(k, Fixture, 1)}

FindResults(k) ==
    {Ok(None), Err("storage")} \cup {Ok(Some(u)) : u \in BackendUsers(k)}

CreateResults(req) ==
    {Err("storage"), Ok(BuildUser(next_id, req, 1))}

\* match state.user_repo.find_user(user_id).await { ... }
get_user_response_none_is_error(r) ==
    IF r.ok /\ r.val # None
    THEN [status |-> "Ok", body |-> r.val[1]]
    ELSE [status |-> "InternalServerError", body |-> "Failed to fetch user"]

get_user_response(r) ==
    IF r.ok
    THEN IF r.val # None
         THEN [status |-> "Ok", body |-> r.val[1]]
         ELSE [status |-> "NotFound", body |-> "User not found"]
    ELSE [status |-> "InternalServerError", body |-> "Failed to fetch user"]

\* match state.user_repo.create_user(req.into_inner()).await { ... }
create_user_response_ok_status(r) ==
    IF r.ok
    THEN [status |-> "Ok", body |-> r.val]
    ELSE [status |-> "InternalServerError", body |-> "Failed to create user"]

create_user_response(r) ==
    IF r.ok
    THEN [status |-> "Created", body |-> r.val]
    ELSE [status |-> "InternalServerError", body |-> "Failed to create user"]

\* the server takes requests once main has shared the store
CanHandle(c) ==
    /\ pc[c] = "idle"
    /\ phase = "serving"
    /\ Cardinality({i \in Invs : history[i].caller \in Callers}) < MaxRequests

\* GET /users/{id}: let user_id = path.into_inner(); the find_user call
\* returns r and the handler maps it to its response.
GetUser(c) ==
    /\ CanHandle(c)
    /\ \E k \in Ids : \E r \in FindResults(k) :
          history' = history \o
             << InvEvent(c, "get_user_handler", k),
                RetEvent(c, "find", k, r, Len(history) + 1),
                RetEvent(c, "get_user_handler", k,
                         get_user_response(r), Len(history) + 1) >>
    /\ UNCHANGED <<users, next_id, phase, pc, request, user, id>>

\* POST /users: req.into_inner(); the create_user call returns r and the
\* handler maps it to its response.
CreateUser(c) ==
    /\ CanHandle(c)
    /\ \E req \in Requests : \E r \in CreateResults(req) :
          history' = history \o
             << InvEvent(c, "create_user_handler", req),
                RetEvent(c, "create", req, r, Len(history) + 1),
                RetEvent(c, "create_user_handler", req,
                         create_user_response(r), Len(history) + 1) >>
    /\ UNCHANGED <<users, next_id, phase, pc, request, user, id>>

HandlerNext ==
    \/ (Initialize /\ FirstTime')
    \/ Share
    \/ \E c \in Callers : GetUser(c)
    \/ \E c \in Callers : CreateUser(c)

HandlerSpec == Init /\ [][HandlerNext]_vars

\* ------------------------------------------------------------ type check
TypeOK ==
    /\ DOMAIN users \subseteq Nat
    /\ next_id \in Nat
    /\ phase \in {"new", "initialized", "serving"}
    /\ pc \in [Callers -> {"idle", "create_begin", "create_built",
                           "find_begin", "list_begin"}]
    /\ id \in [Callers -> 0..MaxId]
    /\ Len(history) <= 2 * (MaxOps + 1)

\* ------------------------------------------------- reading the history
CreateRets == Rets("create")
FindRets == Rets("find")
ListRets == Rets("list")

\* the User a returned create_user call handed to its caller
Created(i) == history[i].val.val

\* the ids create_user calls have returned before position j of the history
IssuedBefore(j) == {Created(i).id : i \in {r \in CreateRets : r < j}}

\* no create_user call is in progress anywhere between positions a and b
NoCreateBetween(a, b) ==
    \A k \in DOMAIN history :
        history[k].op = "create" =>
            /\ k < a \/ k > b
            /\ (history[k].kind = "inv" /\ k < a) =>
                   \E r \in CreateRets : history[r].inv = k /\ r < a

\* events 1..n of the history are n/2 complete create_user calls, one
\* after the other
SequentialCreates(n) ==
    \A k \in 1..n :
        /\ history[k].op = "create"
        /\ (k % 2 = 1) => history[k].kind = "inv"
        /\ (k % 2 = 0) => history[k].kind = "ret" /\ history[k].inv = k - 1

\* a record some create_user call could have built
FullyConstructed(u) ==
    \E r \in Requests, t \in Times : u = BuildUser(u.id, r, t)

\* ----------------------------------------------------------------- C1
\* C1 (create-then-find consistency): when create_user has returned a User
\* with id k and the next call on the store is find_user(k), that call
\* returns Some(u) with u equal to the returned User.
CreateThenFind ==
    \A i \in CreateRets : \A j \in FindRets :
        (history[j].inv = i + 1 /\ history[j].arg = Created(i).id)
            => history[j].val = Ok(Some(Created(i)))

\* ----------------------------------------------------------------- C2
\* C2 (uniqueness under concurrency): any two create_user calls that
\* overlap in time return different ids (neither read the next_id value
\* the other one read).
UniqueIdsUnderConcurrency ==
    \A i, j \in CreateRets :
        (i # j /\ history[i].inv < j /\ history[j].inv < i)
            => Created(i).id # Created(j).id

\* ----------------------------------------------------------------- C3
\* C3 (list completeness): a list_users call issued after M sequential
\* create_user calls on a fresh store, and nothing else, returns exactly M
\* records whose ids are the ids those M calls returned.
ListCompleteness ==
    \A j \in ListRets :
        LET n == history[j].inv - 1
            res == history[j].val.val
        IN  SequentialCreates(n) =>
                /\ Len(res) = n \div 2
                /\ {res[m].id : m \in DOMAIN res}
                      = {Created(k).id : k \in {r \in CreateRets : r <= n}}

\* ----------------------------------------------------------------- C4
\* C4 (permanence): a User that create_user has returned stays in the
\* store unchanged: the store holds it under its id in every later state,
\* and every find_user of its id invoked after the return yields it.
Permanence ==
    \A i \in CreateRets :
        /\ find_user(users, Created(i).id) = Ok(Some(Created(i)))
        /\ \A j \in FindRets :
              (history[j].inv > i /\ history[j].arg = Created(i).id)
                  => history[j].val = Ok(Some(Created(i)))

\* ----------------------------------------------------------------- C5
\* C5 (monotonic id assignment): next_id never decreases, a create_user
\* call that returns leaves next_id above the id it returned, and a call
\* that begins after another has returned gets a strictly greater id.
CreatesInOrder ==
    \A i, j \in CreateRets :
        i < history[j].inv => Created(i).id < Created(j).id

MonotonicStep ==
    /\ next_id' >= next_id
    /\ \A i \in CreateRets' :
          i > Len(history) => next_id' > history'[i].val.val.id
    /\ CreatesInOrder'

MonotonicIds == [][MonotonicStep]_vars

\* ----------------------------------------------------------------- C6
\* C6 (concrete scenario): on a store fresh from new(), create_user of
\* John Doe returns a User with id 1 and the request's name and email; a
\* following find_user(1) returns Some(that User), a following list_users
\* returns exactly that User, and a following find_user(2) returns None.
IsCall(k, op, a) ==
    /\ Len(history) >= k + 1
    /\ history[k].kind = "inv" /\ history[k].op = op /\ history[k].arg = a
    /\ history[k + 1].kind = "ret" /\ history[k + 1].inv = k

Scenario ==
    /\ IsCall(1, "create", Fixture) =>
          /\ history[2].val.ok
          /\ Created(2).id = 1
          /\ Created(2).name = "John Doe"
          /\ Created(2).email = "john@example.com"
    /\ (IsCall(1, "create", Fixture) /\ IsCall(3, "find", 1)) =>
          history[4].val = Ok(Some(Created(2)))
    /\ (IsCall(1, "create", Fixture) /\ IsCall(3, "find", 1)
          /\ IsCall(5, "list", 0)) =>
          history[6].val = Ok(<<Created(2)>>)
    /\ (IsCall(1, "create", Fixture) /\ IsCall(3, "find", 1)
          /\ IsCall(5, "list", 0) /\ IsCall(7, "find", 2)) =>
          history[8].val = Ok(None)

\* ----------------------------------------------------------------- C7
\* C7 (absence): find_user of an id that no create_user call has returned
\* yields Ok(None): every such call that has returned did, and a call made
\* in the current state would.
Absence ==
    /\ \A j \in FindRets :
          history[j].arg \notin IssuedBefore(j) => history[j].val = Ok(None)
    /\ \A k \in Ids :
          k \notin IssuedBefore(Len(history) + 1)
              => find_user(users, k) = Ok(None)

\* a find_user of a never-issued id has returned after some create_user did
AbsenceWitness ==
    \E j \in FindRets :
        /\ IssuedBefore(history[j].inv) # {}
        /\ history[j].arg \notin IssuedBefore(Len(history) + 1)
        /\ history[j].val = Ok(None)

\* ----------------------------------------------------------------- C8
\* C8 (pure, idempotent reads): no step of a find_user or list_users call
\* changes users or next_id, and two calls of the same read with the same
\* argument and no create_user in progress from the first's invocation to
\* the second's return give the same result.
ReadPcs == {"find_begin", "list_begin"}

IdempotentReads ==
    \A i, j \in FindRets \cup ListRets :
        (/\ i < j
         /\ history[i].op = history[j].op
         /\ history[i].arg = history[j].arg
         /\ NoCreateBetween(history[i].inv, j))
            => history[i].val = history[j].val

PureReadStep ==
    /\ \A c \in Callers :
          (pc[c] \in ReadPcs \/ pc'[c] \in ReadPcs)
              => users' = users /\ next_id' = next_id
    /\ IdempotentReads'

PureReads == [][PureReadStep]_vars

\* two find_user calls of one id have returned with no create_user between
PureReadsWitness ==
    \E i, j \in FindRets :
        /\ i < j
        /\ history[i].arg = history[j].arg
        /\ NoCreateBetween(history[i].inv, j)
        /\ history[i].val = history[j].val

\* ----------------------------------------------------------------- C9
\* C9 (snapshot consistency of list_users): every record a list_users call
\* returns is in the store at the moment of the call's read, is a fully
\* constructed User, and does not carry the id of a create_user call that
\* has taken its id and not yet returned.
ListSnapshotStep ==
    \A c \in Callers :
        (pc[c] = "list_begin" /\ pc'[c] = "idle") =>
            LET res == history'[Len(history')].val.val
            IN  \A n \in DOMAIN res :
                    /\ \E k \in DOMAIN users : users[k] = res[n]
                    /\ FullyConstructed(res[n])
                    /\ \A d \in Callers :
                          pc[d] = "create_built" => user[d].id # res[n].id

ListSnapshot == [][ListSnapshotStep]_vars

\* a list_users call has just returned while a create_user call that has
\* built its User is still in progress
ListSnapshotWitness ==
    /\ Len(history) > 0
    /\ history[Len(history)].kind = "ret"
    /\ history[Len(history)].op = "list"
    /\ \E d \in Callers :
          pc[d] = "create_built" /\ LastInv(d) < history[Len(history)].inv

\* ---------------------------------------------------------------- C10
\* C10 (field copying): every create_user call that has returned returned
\* Ok with a User whose name and email are those of its request.
FieldCopying ==
    \A i \in CreateRets :
        /\ history[i].val.ok
        /\ Created(i).name = history[i].arg.name
        /\ Created(i).email = history[i].arg.email

\* a caller's create_user of the tests' request has returned
FieldCopyingWitness ==
    \E i \in CreateRets :
        /\ history[i].caller \in Callers
        /\ history[i].arg = [name |-> "Test User", email |-> "test@example.com"]

\* ---------------------------------------------------------------- C11
\* C11 (fresh store is empty): on a store built by new() on which neither
\* initialize nor any create_user call has started, a list_users call
\* returns Ok with the empty sequence and a find_user call returns Ok(None),
\* for the calls that have returned and for a call made in the current state.
NoCreateBefore(j) ==
    \A k \in 1..(j - 1) : history[k].op # "create"

FreshStoreEmpty ==
    /\ \A j \in ListRets : NoCreateBefore(j) => history[j].val = Ok(<<>>)
    /\ \A j \in FindRets : NoCreateBefore(j) => history[j].val = Ok(None)
    /\ (phase = "new" /\ NoCreateBefore(Len(history) + 1)) =>
          /\ list_users(users) = Ok(<<>>)
          /\ \A k \in Ids : find_user(users, k) = Ok(None)

\* a list_users call and a find_user call have returned on a fresh store
FreshStoreEmptyWitness ==
    /\ phase = "new"
    /\ NoCreateBefore(Len(history) + 1)
    /\ ListRets # {}
    /\ FindRets # {}

\* ---------------------------------------------------------------- C12
\* C12 (seeding before exposure): once initialize has run, already before
\* the store is moved into the shared handle and ever after, the store
\* holds the fixture record (John Doe, john@example.com): list_users
\* returns it and find_user of its id returns it.
FixtureStored ==
    \E k \in DOMAIN users :
        /\ users[k].name = Fixture.name
        /\ users[k].email = Fixture.email
        /\ find_user(users, users[k].id) = Ok(Some(users[k]))
        /\ \E n \in DOMAIN list_users(users).val :
              list_users(users).val[n] = users[k]

SeedingBeforeExposure ==
    phase \in {"initialized", "serving"} => FixtureStored

\* ---------------------------------------------------------------- C13
\* C13 (the in-memory backend never fails): every create_user, find_user
\* and list_users call that has returned returned Ok, and a find_user or
\* list_users call made in the current state would.
NeverFails ==
    /\ \A i \in DOMAIN history :
          history[i].kind = "ret" => history[i].val.ok
    /\ list_users(users).ok
    /\ \A k \in Ids : find_user(users, k).ok

\* a call of each of the three operations has returned
NeverFailsWitness ==
    /\ CreateRets # {}
    /\ \E j \in FindRets : history[j].caller \in Callers
    /\ \E j \in ListRets : history[j].caller \in Callers

\* ---------------------------------------------------------------- C14
\* C14 (one shared store): all handlers work on the one store behind the
\* shared handle, so a User that create_user returned to one handler is
\* returned by every find_user of its id and every list_users that another
\* handler invokes afterwards.
SharedStore ==
    phase = "serving" =>
        \A i \in CreateRets :
            history[i].caller \in Callers =>
                /\ \A j \in FindRets :
                      (/\ history[j].caller # history[i].caller
                       /\ history[j].inv > i
                       /\ history[j].arg = Created(i).id)
                          => history[j].val = Ok(Some(Created(i)))
                /\ \A j \in ListRets :
                      (/\ history[j].caller # history[i].caller
                       /\ history[j].inv > i)
                          => \E n \in DOMAIN history[j].val.val :
                                 history[j].val.val[n] = Created(i)

\* ---------------------------------------------------------------- C15
\* C15 (no unbounded blocking): a call that has been invoked can always
\* take its next step, whatever the other callers are doing, and under
\* fair scheduling every invoked create_user, find_user and list_users
\* call eventually returns.
CanStep(c) ==
    ENABLED ((CreateBuild(c) /\ FirstTime') \/ CreateReturn(c)
                \/ FindReturn(c) \/ ListReturn(c))

EventuallyReturns ==
    /\ [](\A c \in Callers : pc[c] # "idle" => CanStep(c))
    /\ \A c \in Callers : (pc[c] # "idle") ~> (pc[c] = "idle")

\* two calls are in progress at the same time, one of them a create_user
\* that has read next_id
EventuallyReturnsWitness ==
    \E c, d \in Callers :
        /\ c # d
        /\ pc[c] = "create_built"
        /\ pc[d] \in {"find_begin", "list_begin", "create_begin"}

\* ---------------------------------------------------------------- C16
\* C16 (GET /users/{id} outcome mapping): get_user_handler answers Ok with
\* the User exactly when find_user returned Ok(Some(user)), NotFound
\* exactly when it returned Ok(None) and InternalServerError exactly when
\* it returned Err.
GetUserRets == Rets("get_user_handler")

GetUserMapping ==
    \A j \in GetUserRets :
        LET r == history[j - 1].val
            resp == history[j].val
        IN  /\ history[j - 1].op = "find" /\ history[j - 1].inv = history[j].inv
            /\ resp.status \in {"Ok", "NotFound", "InternalServerError"}
            /\ (resp.status = "Ok") <=> (r.ok /\ Len(r.val) = 1)
            /\ (resp.status = "Ok") => resp.body = r.val[1]
            /\ (resp.status = "NotFound") <=> (r.ok /\ r.val = None)
            /\ (resp.status = "InternalServerError") <=> ~r.ok

\* the handler has answered a found, an absent and a failed lookup
GetUserMappingWitness ==
    /\ \E j \in GetUserRets : history[j].val.status = "Ok"
    /\ \E j \in GetUserRets :
          history[j].val.status = "NotFound" /\ history[j - 1].val = Ok(None)
    /\ \E j \in GetUserRets : history[j].val.status = "InternalServerError"

\* ---------------------------------------------------------------- C17
\* C17 (POST /users outcome mapping): create_user_handler answers Created
\* with the User create_user returned exactly when create_user returned
\* Ok, and InternalServerError with an error message exactly when it
\* returned Err.
CreateUserRets == Rets("create_user_handler")

CreateUserMapping ==
    \A j \in CreateUserRets :
        LET r == history[j - 1].val
            resp == history[j].val
        IN  /\ history[j - 1].op = "create"
            /\ history[j - 1].inv = history[j].inv
            /\ resp.status \in {"Created", "InternalServerError"}
            /\ (resp.status = "Created") <=> r.ok
            /\ (resp.status = "Created") => resp.body = r.val
            /\ (resp.status = "InternalServerError") <=> ~r.ok
            /\ (resp.status = "InternalServerError")
                  => resp.body = "Failed to create user"

\* the handler has answered a successful and a failed creation
CreateUserMappingWitness ==
    /\ \E j \in CreateUserRets : history[j].val.status = "Created"
    /\ \E j \in CreateUserRets : history[j].val.status = "InternalServerError"

\* ---------------------------------------------------------------- C18
\* C18 (read agreement): in every state, find_user(k) returns Some(u)
\* exactly for the records u of list_users with id k, and list_users holds
\* no two records with the same id.
Listed == {list_users(users).val[n] : n \in DOMAIN list_users(users).val}

ReadAgreement ==
    /\ \A k \in Ids \cup DOMAIN users \cup {u.id : u \in Listed} :
          \A u \in Listed \cup {users[j] : j \in DOMAIN users} :
              (find_user(users, k) = Ok(Some(u))) <=> (u \in Listed /\ u.id = k)
    /\ \A m, n \in DOMAIN list_users(users).val :
          m # n => list_users(users).val[m].id # list_users(users).val[n].id

\* after a create_user call returned, a find_user call and a list_users
\* call have returned the same view of the store
ReadAgreementWitness ==
    \E i \in CreateRets, j \in FindRets, l \in ListRets :
        /\ i < history[j].inv /\ i < history[l].inv
        /\ history[j].val = find_user(users, history[j].arg)
        /\ history[l].val = list_users(users)

\* ---------------------------------------------------------------- C19
\* C19 (the counter bounds the store): in every state next_id >= 1, every
\* key and every id stored in users is >= 1 and < next_id, and so next_id
\* itself is not a key of users.
CounterBoundsStore ==
    /\ next_id >= 1
    /\ \A k \in DOMAIN users :
          /\ 1 <= k /\ k < next_id
          /\ 1 <= users[k].id /\ users[k].id < next_id
    /\ next_id \notin DOMAIN users

\* two create_user calls of the callers have returned
CounterBoundsStoreWitness ==
    \E i, j \in CreateRets :
        /\ i < j
        /\ history[i].caller \in Callers
        /\ history[j].caller \in Callers

\* ---------------------------------------------------------------- C20
\* C20 (key matches record): in every state each entry of users is stored
\* under the id of its User, and every find_user call that has returned a
\* User returned one whose id is the id it was asked for.
KeyMatchesRecord ==
    /\ \A k \in DOMAIN users : users[k].id = k
    /\ \A j \in FindRets :
          history[j].val # Ok(None) => history[j].val.val[1].id = history[j].arg

\* a find_user call of an id that create_user had issued has returned
KeyMatchesRecordWitness ==
    \E j \in FindRets : history[j].arg \in IssuedBefore(history[j].inv)

====
